---- MODULE Spec2Model ----
(***************************************************************************)
(* A model of nbsp: fixed-size binary structures over a Buffer.            *)
(*                                                                         *)
(*   - the scalar codec (memory: read / write / sizeof),                   *)
(*   - the layout planner (structure: alignUp / alignFields),              *)
(*   - the transform pipeline (transformer: applyTransform),               *)
(*   - the recursive structure codec and the struct class                  *)
(*     (structure: writeStruct / writeArray / readArray / readStruct /     *)
(*      construct / struct).                                               *)
(*                                                                         *)
(* The specifications that share the module:                               *)
(*   SpecCodec      one write and one read of a scalar on a Buffer,        *)
(*   SpecLayout     alignFields applied to a schema,                       *)
(*   SpecTransform  applyTransform applied to a list and a value,          *)
(*   Spec           the struct class: new, from, copy, reset, toJson,      *)
(*                  data() and the live accessors of its instances,        *)
(*   SpecOwn        writes to one of two instances of the class,           *)
(*   SpecView       reads through the live view of an array of structures. *)
(*                                                                         *)
(* IEEE-754 values are not modelled: the float DataTypes keep their size   *)
(* (sizeof) but are never read or written here.                            *)
(***************************************************************************)
EXTENDS Integers, Sequences, FiniteSets, TLC

VARIABLES
    codec,      \* SpecCodec: the arguments, the Buffer and the outcome of write / read
    plan,       \* SpecLayout: the schema given to alignFields and what it returned
    writeData,  \* struct(): the closure's `let writeData` flag of the class S
    insts,      \* the instances of S created so far, each with its __buff__ and properties
    bufs,       \* Buffers owned by the caller (sources of from / copy / toJson)
    last,       \* the last call on S or on an instance: what was asked and what came back
    nops        \* number of calls made so far

vars == <<codec, plan, writeData, insts, bufs, last, nops>>

(***************************************************************************)
(* Integers.  A JavaScript integer (a number or a bigint) is kept as a     *)
(* 65-bit two's complement numeral of four 16-bit limbs, least significant *)
(* first, plus the sign: value = SUM l[i] * 2^(16(i-1)) - (neg ? 2^64 : 0).*)
(* It covers [-2^64, 2^64), i.e. every value in or just outside the range  *)
(* of every integer DataType.                                              *)
(***************************************************************************)
N(neg, l0, l1, l2, l3) == [neg |-> neg, l |-> <<l0, l1, l2, l3>>]

\* An integer literal of at most 31 bits.
NumOf(i) ==
    N(i < 0, i % 65536, (i \div 65536) % 65536,
      IF i < 0 THEN 65535 ELSE 0, IF i < 0 THEN 65535 ELSE 0)

\* a < b
NumLT(a, b) ==
    IF a.neg # b.neg THEN a.neg
    ELSE \E i \in 1..4 : /\ a.l[i] < b.l[i]
                         /\ \A j \in (i + 1)..4 : a.l[j] = b.l[j]

\* Byte j (0 = least significant) of the two's complement numeral.
ByteOf(n, j) ==
    LET limb == n.l[(j \div 2) + 1]
    IN  IF j % 2 = 0 THEN limb % 256 ELSE limb \div 256

\* The numeral of eight bytes, least significant first, and a sign.
FromBytes(bs, neg) ==
    [neg |-> neg, l |-> [i \in 1..4 |-> bs[2 * i - 1] + 256 * bs[2 * i]]]

(***************************************************************************)
(* JavaScript values, as far as the library tells them apart.              *)
(***************************************************************************)
Number(n)   == [t |-> "number", n |-> n]      \* an integer-valued number
BigInt(n)   == [t |-> "bigint", n |-> n]
Fraction    == [t |-> "fraction"]             \* a finite number that is no integer (1.5)
Boolean(b)  == [t |-> "boolean", b |-> b]
NaN         == [t |-> "nan"]
Undefined   == [t |-> "undefined"]
Null        == [t |-> "null"]
Array(e)    == [t |-> "array", e |-> e]
Object(p)   == [t |-> "object", p |-> p]
String(s)   == [t |-> "string", s |-> s]     \* s: the sequence of its code points
Num(i)      == Number(NumOf(i))

Zero == NumOf(0)

\* ToBoolean: what `arg ? a : b` and `if (val)` test.
Truthy(v) ==
    CASE v.t = "number"    -> v.n # Zero
      [] v.t = "bigint"    -> v.n # Zero
      [] v.t = "boolean"   -> v.b
      [] v.t \in {"undefined", "null", "nan"} -> FALSE
      [] v.t = "string"    -> v.s # <<>>
      [] OTHER             -> TRUE

(***************************************************************************)
(* type.ts: DataType, ArrayDataType, struct classes as field types.        *)
(***************************************************************************)
DT(name) == [kind |-> "scalar", name |-> name]

IntTypeNames ==
    {"INT8", "UINT8", "INT16LE", "INT16BE", "UINT16LE", "UINT16BE",
     "INT32LE", "INT32BE", "UINT32LE", "UINT32BE",
     "INT64LE", "INT64BE", "UINT64LE", "UINT64BE"}

FloatTypeNames == {"FLOAT32LE", "FLOAT32BE", "FLOAT64LE", "FLOAT64BE"}

DataType == {DT(name) : name \in IntTypeNames \cup FloatTypeNames}

ArrayDataType(type, length) == [kind |-> "array", elem |-> type, length |-> length]

isStructDataType(t) == t.kind = "struct"

isArrayDataType(t) == t.kind = "array"

charDataType(length) == ArrayDataType(DT("UINT8"), length)

AlignedData(type, offset, size) == [type |-> type, offset |-> offset, size |-> size]

(***************************************************************************)
(* memory: the Buffer and its fixed-width integer accessors.  A Buffer is  *)
(* a sequence of bytes; position p (from 0) is element p + 1.  Node's      *)
(* accessors check the position first (a RangeError leaves the Buffer as   *)
(* it was), store the low bytes of the two's complement numeral in the     *)
(* type's byte order, and on a read extend the sign of a signed type.      *)
(***************************************************************************)
alloc(s) == [i \in 1..s |-> 0]

InBounds(buffer, pos, w) == pos >= 0 /\ pos + w <= Len(buffer)

writeIntLE(buffer, n, pos, w) ==
    [i \in 1..Len(buffer) |->
        IF pos < i /\ i <= pos + w THEN ByteOf(n, i - 1 - pos) ELSE buffer[i]]

\* Mutant of writeIntBE: the bytes stored in little-endian order.
writeIntBE_LowByteFirst(buffer, n, pos, w) ==
    [i \in 1..Len(buffer) |->
        IF pos < i /\ i <= pos + w THEN ByteOf(n, i - 1 - pos) ELSE buffer[i]]

writeIntBE(buffer, n, pos, w) ==
    [i \in 1..Len(buffer) |->
        IF pos < i /\ i <= pos + w THEN ByteOf(n, w - (i - pos)) ELSE buffer[i]]

readUIntLE(buffer, pos, w) ==
    FromBytes([j \in 1..8 |-> IF j <= w THEN buffer[pos + j] ELSE 0], FALSE)

readUIntBE(buffer, pos, w) ==
    FromBytes([j \in 1..8 |-> IF j <= w THEN buffer[pos + w + 1 - j] ELSE 0], FALSE)

readIntLE(buffer, pos, w) ==
    LET neg == buffer[pos + w] >= 128
    IN  FromBytes([j \in 1..8 |-> IF j <= w THEN buffer[pos + j]
                                  ELSE IF neg THEN 255 ELSE 0], neg)

readIntBE(buffer, pos, w) ==
    LET neg == buffer[pos + 1] >= 128
    IN  FromBytes([j \in 1..8 |-> IF j <= w THEN buffer[pos + w + 1 - j]
                                  ELSE IF neg THEN 255 ELSE 0], neg)

\* The outcome of a call that writes: the error thrown ("none": it returned)
\* and the Buffer afterwards.
Ok(buffer) == [err |-> "none", buffer |-> buffer]

Throw(e, buffer) == [err |-> e, buffer |-> buffer]

\* The outcome of a call that reads.
Ret(value) == [err |-> "none", value |-> value]

Raise(e) == [err |-> e, value |-> Undefined]

\* assertInteger without the test against max.
assertInteger_MinOnly(value, min, max) ==
    IF value.t # "number" THEN "NotInteger"
    ELSE IF NumLT(value.n, min) THEN "OutOfRange"
    ELSE "none"

assertInteger(value, min, max) ==
    IF value.t # "number" THEN "NotInteger"
    ELSE IF NumLT(value.n, min) \/ NumLT(max, value.n) THEN "OutOfRange"
    ELSE "none"

assertBigIntRange(value, min, max) ==
    IF NumLT(value, min) \/ NumLT(max, value) THEN "OutOfRange" ELSE "none"

\* BigInt(value) of `write`: an integer number or a bigint converts; a
\* fraction is a RangeError, undefined a TypeError.
ToBigInt(value) ==
    CASE value.t \in {"number", "bigint"} -> [err |-> "none", n |-> value.n]
      [] value.t = "boolean" -> [err |-> "none", n |-> IF value.b THEN NumOf(1) ELSE Zero]
      [] value.t \in {"fraction", "nan"} -> [err |-> "RangeError", n |-> Zero]
      [] OTHER -> [err |-> "TypeError", n |-> Zero]

ScalarName(type) == IF type.kind = "scalar" THEN type.name ELSE "none"

write(data, buffer, value, offset) ==
    LET pos == offset + data.offset
        store(e, n, w, be) ==
            IF e # "none" THEN Throw(e, buffer)
            ELSE IF ~InBounds(buffer, pos, w) THEN Throw("OffsetOutOfRange", buffer)
            ELSE Ok(IF be THEN writeIntBE(buffer, n, pos, w)
                          ELSE writeIntLE(buffer, n, pos, w))
        int(min, max, w, be) ==
            store(assertInteger(value, min, max), value.n, w, be)
        big(min, max, be) ==
            LET b == ToBigInt(value)
            IN  IF b.err # "none" THEN Throw(b.err, buffer)
                ELSE store(assertBigIntRange(b.n, min, max), b.n, 8, be)
        name == ScalarName(data.type)
    IN  CASE name = "INT8"     -> int(NumOf(-128), NumOf(127), 1, FALSE)
          [] name = "UINT8"    -> int(NumOf(0), NumOf(255), 1, FALSE)
          [] name = "INT16LE"  -> int(NumOf(-32768), NumOf(32767), 2, FALSE)
          [] name = "INT16BE"  -> int(NumOf(-32768), NumOf(32767), 2, TRUE)
          [] name = "UINT16LE" -> int(NumOf(0), NumOf(65535), 2, FALSE)
          [] name = "UINT16BE" -> int(NumOf(0), NumOf(65535), 2, TRUE)
          [] name = "INT32LE"  -> int(N(TRUE, 0, 32768, 65535, 65535),
                                      N(FALSE, 65535, 32767, 0, 0), 4, FALSE)
          [] name = "INT32BE"  -> int(N(TRUE, 0, 32768, 65535, 65535),
                                      N(FALSE, 65535, 32767, 0, 0), 4, TRUE)
          [] name = "UINT32LE" -> int(NumOf(0), N(FALSE, 65535, 65535, 0, 0), 4, FALSE)
          [] name = "UINT32BE" -> int(NumOf(0), N(FALSE, 65535, 65535, 0, 0), 4, TRUE)
          [] name = "INT64LE"  -> big(N(TRUE, 0, 0, 0, 32768),
                                      N(FALSE, 65535, 65535, 65535, 32767), FALSE)
          [] name = "INT64BE"  -> big(N(TRUE, 0, 0, 0, 32768),
                                      N(FALSE, 65535, 65535, 65535, 32767), TRUE)
          [] name = "UINT64LE" -> big(NumOf(0), N(FALSE, 65535, 65535, 65535, 65535), FALSE)
          [] name = "UINT64BE" -> big(NumOf(0), N(FALSE, 65535, 65535, 65535, 65535), TRUE)
          [] name \in FloatTypeNames -> Throw("FloatNotModelled", buffer)
          [] OTHER -> Throw("InvalidType", buffer)

read(data, buffer, offset) ==
    LET pos == offset + data.offset
        name == ScalarName(data.type)
        w == CASE name \in {"INT8", "UINT8"} -> 1
               [] name \in {"INT16LE", "INT16BE", "UINT16LE", "UINT16BE"} -> 2
               [] name \in {"INT32LE", "INT32BE", "UINT32LE", "UINT32BE"} -> 4
               [] OTHER -> 8
    IN  IF name \in FloatTypeNames THEN Raise("FloatNotModelled")
        ELSE IF name \notin IntTypeNames THEN Raise("InvalidType")
        ELSE IF ~InBounds(buffer, pos, w) THEN Raise("OffsetOutOfRange")
        ELSE CASE name = "INT8"     -> Ret(Number(readIntLE(buffer, pos, 1)))
               [] name = "UINT8"    -> Ret(Number(readUIntLE(buffer, pos, 1)))
               [] name = "INT16LE"  -> Ret(Number(readIntLE(buffer, pos, 2)))
               [] name = "INT16BE"  -> Ret(Number(readIntBE(buffer, pos, 2)))
               [] name = "UINT16LE" -> Ret(Number(readUIntLE(buffer, pos, 2)))
               [] name = "UINT16BE" -> Ret(Number(readUIntBE(buffer, pos, 2)))
               [] name = "INT32LE"  -> Ret(Number(readIntLE(buffer, pos, 4)))
               [] name = "INT32BE"  -> Ret(Number(readIntBE(buffer, pos, 4)))
               [] name = "UINT32LE" -> Ret(Number(readUIntLE(buffer, pos, 4)))
               [] name = "UINT32BE" -> Ret(Number(readUIntBE(buffer, pos, 4)))
               [] name = "INT64LE"  -> Ret(BigInt(readIntLE(buffer, pos, 8)))
               [] name = "INT64BE"  -> Ret(BigInt(readIntBE(buffer, pos, 8)))
               [] name = "UINT64LE" -> Ret(BigInt(readUIntLE(buffer, pos, 8)))
               [] name = "UINT64BE" -> Ret(BigInt(readUIntBE(buffer, pos, 8)))

getDataTypeSize(type) ==
    CASE type.name \in {"INT8", "UINT8"} -> 1
      [] type.name \in {"INT16LE", "INT16BE", "UINT16LE", "UINT16BE"} -> 2
      [] type.name \in {"INT32BE", "INT32LE", "UINT32LE", "UINT32BE"} -> 4
      [] type.name \in {"INT64LE", "INT64BE", "UINT64LE", "UINT64BE"} -> 8
      [] type.name \in {"FLOAT32LE", "FLOAT32BE"} -> 4
      [] type.name \in {"FLOAT64LE", "FLOAT64BE"} -> 8

getStructDataSize(struct) == struct.size

RECURSIVE sizeof(_)
\* Mutant of getArrrayDataSize: the length forgotten.
getArrrayDataSize_OneElement(type) == sizeof(type.elem)

getArrrayDataSize(type) == sizeof(type.elem) * type.length

sizeof(type) ==
    CASE type.kind = "scalar" -> getDataTypeSize(type)
      [] type.kind = "string" -> 0
      [] type.kind = "array"  -> getArrrayDataSize(type)
      [] OTHER                -> getStructDataSize(type)

(***************************************************************************)
(* transformer: applyTransform.  A transformer function is named; a list   *)
(* is List(<<names>>) or undefined; a PropertyTransformer has an input and *)
(* an output list.                                                         *)
(***************************************************************************)
List(fs) == [t |-> "list", f |-> fs]

PropertyTransformer(input, output) ==
    [t |-> "transformer", input |-> input, output |-> output]

\* The number n as an integer of the model, for n of at most 32 bits.
IntOf(n) == IF n.neg THEN n.l[1] + 65536 * (n.l[2] - 65536) ELSE n.l[1] + 65536 * n.l[2]

\* ToNumber of the operand of `v + 10` / `v - 10`.
ToNumber(v) ==
    CASE v.t = "number"  -> v
      [] v.t = "boolean" -> IF v.b THEN Num(1) ELSE Num(0)
      [] v.t = "null"    -> Num(0)
      [] OTHER           -> NaN

\* The transformer functions of the classes under test: a stored bias of 10
\* (v => v + 10, v => v - 10), and v => v * 2.
Call(f, v) ==
    CASE f = "add10" -> IF ToNumber(v).t = "number"
                        THEN Num(IntOf(ToNumber(v).n) + 10) ELSE NaN
      [] f = "sub10" -> IF ToNumber(v).t = "number"
                        THEN Num(IntOf(ToNumber(v).n) - 10) ELSE NaN
      [] f = "double" -> IF ToNumber(v).t = "number"
                         THEN Num(IntOf(ToNumber(v).n) * 2) ELSE NaN
      [] OTHER -> v

RECURSIVE transformFrom_LastFirst(_, _, _)
\* The loop of transform running the list from its end.
transformFrom_LastFirst(rv, transformers, i) ==
    IF i > Len(transformers) THEN rv
    ELSE Call(transformers[i], transformFrom_LastFirst(rv, transformers, i + 1))

RECURSIVE transformFrom(_, _, _)
transformFrom(rv, transformers, i) ==
    IF i > Len(transformers) THEN rv
    ELSE transformFrom(Call(transformers[i], rv), transformers, i + 1)

transform(v, transformers) == transformFrom(v, transformers, 1)

applyTransform(transformer, v) ==
    IF transformer.t = "list" /\ Len(transformer.f) # 0
    THEN transform(v, transformer.f) ELSE v

\* transformers[k], transformer?.input, transformer?.output
TransformerOf(transformers, k) ==
    IF k \in DOMAIN transformers THEN transformers[k] ELSE Undefined

InputOf(transformer) ==
    IF transformer.t = "transformer" THEN transformer.input ELSE Undefined

OutputOf(transformer) ==
    IF transformer.t = "transformer" THEN transformer.output ELSE Undefined

(***************************************************************************)
(* structure: the recursive codec.  A call that writes returns the error   *)
(* thrown and the Buffer as the call left it (bytes written before the     *)
(* throw stay written).                                                    *)
(***************************************************************************)
\* The entry of field k.
Field(fields, k) == fields[CHOOSE i \in 1..Len(fields) : fields[i].k = k]

Keys(fields) == {fields[i].k : i \in 1..Len(fields)}

\* value[k]: a TypeError on undefined and null, undefined when absent.
HasProps(value) == value.t \notin {"undefined", "null"}

GetProp(value, k) ==
    IF value.t = "object" /\ k \in DOMAIN value.p THEN value.p[k] ELSE Undefined

\* arr.length: undefined (here -1) for what is neither an array nor a string.
LengthOf(arr) ==
    CASE arr.t = "array"  -> Len(arr.e)
      [] arr.t = "string" -> Len(arr.s)
      [] OTHER            -> -1

\* arr[i]
ElementOf(arr, i) ==
    CASE arr.t = "array"  -> arr.e[i + 1]
      [] arr.t = "string" -> String(<<arr.s[i + 1]>>)
      [] OTHER            -> Undefined

RECURSIVE writeStruct(_, _, _, _)
RECURSIVE writeArray(_, _, _, _)
RECURSIVE writeStructFrom(_, _, _, _, _)
RECURSIVE writeArrayFrom(_, _, _, _, _)
RECURSIVE writeValue(_, _, _, _)

\* The dispatch on the field's type that writeStruct, writeArray and the
\* setter each make: writeStruct, writeArray or write.
writeValue(field, buffer, val, offset) ==
    IF isStructDataType(field.type) THEN writeStruct(field, buffer, val, offset)
    ELSE IF isArrayDataType(field.type) THEN writeArray(field, val, buffer, offset)
    ELSE write(field, buffer, val, offset)

\* The loop of writeStruct after field i wrote with result r.
writeStructNext(data, value, offset, i, r) ==
    IF r.err # "none" THEN r
    ELSE writeStructFrom(data, r.buffer, value, offset, i + 1)

\* The loop of writeStruct from field i on.
writeStructFrom(data, buffer, value, offset, i) ==
    IF i > Len(data.type.fields) THEN Ok(buffer)
    ELSE IF ~HasProps(value) THEN Throw("TypeError", buffer)
    ELSE writeStructNext(data, value, offset, i,
             writeValue(data.type.fields[i], buffer,
                        applyTransform(
                            InputOf(TransformerOf(data.type.transform,
                                                  data.type.fields[i].k)),
                            GetProp(value, data.type.fields[i].k)),
                        offset + data.offset))

writeStruct(data, buffer, value, offset) ==
    writeStructFrom(data, buffer, value, offset, 1)

\* The loop of writeArray after element i wrote with result r.
writeArrayNext(data, arr, offset, i, r) ==
    IF r.err # "none" THEN r
    ELSE writeArrayFrom(data, arr, r.buffer, offset, i + 1)

\* The loop of writeArray from element i on.
writeArrayFrom(data, arr, buffer, offset, i) ==
    IF i >= data.type.length THEN Ok(buffer)
    ELSE writeArrayNext(data, arr, offset, i,
             writeValue(AlignedData(data.type.elem, i * sizeof(data.type.elem),
                                    sizeof(data.type.elem)),
                        buffer, ElementOf(arr, i), offset + data.offset))

writeArray(data, arr, buffer, offset) ==
    IF ~HasProps(arr) THEN Throw("TypeError", buffer)
    ELSE IF LengthOf(arr) # data.type.length THEN Throw("InvalidLength", buffer)
    ELSE writeArrayFrom(data, arr, buffer, offset, 0)

\* What readStruct returns with mutable = true: an object whose properties
\* are accessors (defineProxyProperty) on `buffer`, each closed over the
\* struct's field, its transformer and the base offset.
View(type, offset) == [t |-> "view", type |-> type, offset |-> offset]

\* The first error among results, or "none".
FirstError(rs) ==
    IF \A i \in 1..Len(rs) : rs[i].err = "none" THEN "none"
    ELSE rs[CHOOSE i \in 1..Len(rs) :
                /\ rs[i].err # "none"
                /\ \A j \in 1..(i - 1) : rs[j].err = "none"].err

\* The array t of readArray, once its elements are read.
ArrayOf(rs) ==
    IF FirstError(rs) # "none" THEN Raise(FirstError(rs))
    ELSE Ret(Array([i \in 1..Len(rs) |-> rs[i].value]))

\* The object t of readStruct (not mutable), once its fields are read.
ObjectOf(fields, rs) ==
    IF FirstError(rs) # "none" THEN Raise(FirstError(rs))
    ELSE Ret(Object([k \in Keys(fields) |->
                       rs[CHOOSE i \in 1..Len(fields) : fields[i].k = k].value]))

\* applyTransform(transformer?.output, out) on what a read returned.
Transformed(transformer, out) ==
    IF out.err # "none" THEN out
    ELSE Ret(applyTransform(OutputOf(transformer), out.value))

\* The element i of an array of `type`, as readArray addresses it.
ElementData(type, i) ==
    IF isStructDataType(type) THEN AlignedData(type, i * type.size, type.size)
    ELSE AlignedData(type, i * sizeof(type), sizeof(type))

RECURSIVE readArray(_, _, _, _)
RECURSIVE readStruct(_, _, _, _)
RECURSIVE readValue(_, _, _, _)

\* The dispatch on the field's type that readArray and readStruct each make.
readValue(field, buffer, offset, mutable) ==
    IF isStructDataType(field.type) THEN readStruct(field, buffer, offset, mutable)
    ELSE IF isArrayDataType(field.type) THEN readArray(field, buffer, offset, mutable)
    ELSE read(field, buffer, offset)

readArray(data, buffer, offset, mutable) ==
    ArrayOf([i \in 1..data.type.length |->
               readValue(ElementData(data.type.elem, i - 1), buffer,
                         offset + data.offset, mutable)])

readStruct(data, buffer, offset, mutable) ==
    IF mutable THEN Ret(View(data.type, data.offset + offset))
    ELSE ObjectOf(data.type.fields,
             [i \in 1..Len(data.type.fields) |->
                Transformed(TransformerOf(data.type.transform, data.type.fields[i].k),
                            readValue(data.type.fields[i], buffer,
                                      data.offset + offset, mutable))])

(***************************************************************************)
(* structure: defineProxyProperty and construct.  An object's property is  *)
(* an accessor pair closed over (field, buffer, transformer, offset), a    *)
(* nested object of such properties (target[k] = {}), or a plain value.    *)
(* The Buffer the closures hold is the owning instance's own __buff__.     *)
(***************************************************************************)
defineProxyProperty(field, transformer, offset) ==
    [kind |-> "accessor", field |-> field, transformer |-> transformer,
     offset |-> offset]

NestedObject(props) == [kind |-> "object", props |-> props]

PlainValue(value) == [kind |-> "data", value |-> value]

\* get() of defineProxyProperty, reading at the field's offset without the
\* base.
get_NoBase(field, buffer, transformer, offset) ==
    Transformed(transformer, readValue(field, buffer, 0, TRUE))

\* get() of defineProxyProperty, returning what read returned without the
\* output transformers.
get_Raw(field, buffer, transformer, offset) ==
    readValue(field, buffer, offset, TRUE)

\* get() of defineProxyProperty.  For a struct field the getter returns
\* target[key], which is this getter again: the call never returns.
get(field, buffer, transformer, offset) ==
    IF isStructDataType(field.type) THEN Raise("StackOverflow")
    ELSE Transformed(transformer, readValue(field, buffer, offset, TRUE))

\* set(v) of defineProxyProperty, writing at the field's offset without the
\* base.
set_NoBase(field, buffer, transformer, offset, v) ==
    writeValue(field, buffer, applyTransform(InputOf(transformer), v), 0)

\* set(v) of defineProxyProperty
set(field, buffer, transformer, offset, v) ==
    writeValue(field, buffer, applyTransform(InputOf(transformer), v), offset)

\* arg ?? {}
OrEmpty(arg) == IF arg.t \in {"undefined", "null"} THEN Object(<<>>) ELSE arg

Constructed(err, buffer, props) == [err |-> err, buffer |-> buffer, props |-> props]

\* One field of construct done: the error thrown, the Buffer, and the
\* property it set on the target.
FieldDone(w, prop) == [err |-> w.err, buffer |-> w.buffer, prop |-> prop]

\* target[k] = {} filled by the nested construct c.
NestedDone(c) == [err |-> c.err, buffer |-> c.buffer, prop |-> NestedObject(c.props)]

RECURSIVE construct(_, _, _, _, _, _)
RECURSIVE constructFrom(_, _, _, _, _, _, _, _)

\* The body of construct's loop for one field, val being
\* `arg ? applyTransform(transformer?.input, arg) : arg`.
constructField(field, transformer, arg, val, buffer, offset, wd) ==
    IF isStructDataType(field.type)
    THEN NestedDone(construct(field.type.fields, field.type.transform,
                              OrEmpty(IF wd THEN arg ELSE val),
                              buffer, offset + field.offset, wd))
    ELSE FieldDone(IF ~wd THEN Ok(buffer)
                   ELSE IF isArrayDataType(field.type)
                   THEN writeArray(field, val, buffer, offset)
                   ELSE IF Truthy(val)
                   THEN write(field, buffer, val, offset)
                   ELSE Ok(buffer),
                   defineProxyProperty(field, transformer, offset))

\* The loop of construct after field i finished with r.
constructNext(target, fields, transformers, args, offset, wd, i, r) ==
    IF r.err # "none" THEN Constructed(r.err, r.buffer, target)
    ELSE constructFrom(target @@ (fields[i].k :> r.prop), fields, transformers,
                       args, r.buffer, offset, wd, i + 1)

\* The loop of construct from field i on; target holds the properties set so
\* far.
constructFrom(target, fields, transformers, args, buffer, offset, wd, i) ==
    IF i > Len(fields) THEN Constructed("none", buffer, target)
    ELSE IF ~HasProps(args) THEN Constructed("TypeError", buffer, target)
    ELSE constructNext(target, fields, transformers, args, offset, wd, i,
             constructField(fields[i], TransformerOf(transformers, fields[i].k),
                 GetProp(args, fields[i].k),
                 IF Truthy(GetProp(args, fields[i].k))
                 THEN applyTransform(InputOf(TransformerOf(transformers, fields[i].k)),
                                     GetProp(args, fields[i].k))
                 ELSE GetProp(args, fields[i].k),
                 buffer, offset, wd))

construct(fields, transformers, args, buffer, offset, wd) ==
    constructFrom(<<>>, fields, transformers, args, buffer, offset, wd, 1)

(***************************************************************************)
(* Node's Buffer.prototype.copy and fill, as the class calls them.         *)
(***************************************************************************)
Min(a, b) == IF a < b THEN a ELSE b

\* A copy that hands back the source's slice in place of the target.
copy_Slice(source, target, targetStart, sourceStart, sourceEnd) ==
    Ok(SubSeq(source, sourceStart + 1, Min(sourceEnd, Len(source))))

\* source.copy(target, targetStart, sourceStart, sourceEnd): a sourceStart
\* past the source's end is a RangeError, and no more bytes are copied than
\* the source has and the target takes.
copy(source, target, targetStart, sourceStart, sourceEnd) ==
    IF sourceStart < 0 \/ sourceStart > Len(source) \/ sourceEnd < 0
    THEN Throw("OutOfRange", target)
    ELSE IF targetStart >= Len(target) \/ sourceStart >= sourceEnd
    THEN Ok(target)
    ELSE LET end == Min(sourceEnd, sourceStart + Len(target) - targetStart)
             nb  == Min(end - sourceStart, Len(source) - sourceStart)
         IN  Ok([j \in 1..Len(target) |->
                   IF j - 1 >= targetStart /\ j - 1 < targetStart + nb
                   THEN source[sourceStart + (j - 1 - targetStart) + 1]
                   ELSE target[j]])

\* buffer.fill(value)
fill(buffer, value) == [j \in 1..Len(buffer) |-> value]

(***************************************************************************)
(* The parts of the state a specification does not use stay as they are.   *)
(***************************************************************************)
CodecIdle == [pc |-> "idle"]

PlanIdle == [pc |-> "idle"]

ClassIdle ==
    /\ writeData = TRUE
    /\ insts = <<>>
    /\ bufs = <<>>
    /\ last = [op |-> "none"]
    /\ nops = 0

(***************************************************************************)
(* structure: the layout planner.  `&` and `~` are JavaScript's, on two's  *)
(* complement integers.                                                    *)
(***************************************************************************)
RECURSIVE BitAnd(_, _)
BitAnd(a, b) ==
    IF a = 0 \/ b = 0 THEN 0
    ELSE IF a = -1 THEN b
    ELSE IF b = -1 THEN a
    ELSE 2 * BitAnd(a \div 2, b \div 2) + (a % 2) * (b % 2)

BitNot(a) == -a - 1

\* Mutant of alignUp: no alignment at all.
alignUp_Unaligned(n, align) == n

\* Mutant of alignUp: the `+ align - 1` forgotten.
alignUp_RoundDown(n, align) == BitAnd(n, BitNot(align - 1))

\* Mutant of alignUp: the next multiple of align, whatever align is.
alignUp_NextMultiple(n, align) ==
    IF align = 0 THEN n ELSE ((n + align - 1) \div align) * align

alignUp(n, align) == BitAnd(n + align - 1, BitNot(align - 1))

\* A schema (`data`) is the sequence of its entries [k, m] in declaration
\* order (Object.entries); the fields returned are in the same order.
Entry(k, m) == [k |-> k, m |-> m]

RECURSIVE alignLoop(_, _, _, _, _, _)
alignLoop(data, packed, i, offset, maxAlign, fields) ==
    IF i > Len(data)
    THEN [err |-> "none", fields |-> fields,
          size |-> IF packed THEN offset ELSE alignUp(offset, maxAlign)]
    ELSE LET k == data[i].k
             size == sizeof(data[i].m)
             off == IF packed THEN offset ELSE alignUp(offset, size)
             maxA == IF packed THEN maxAlign
                     ELSE IF size > maxAlign THEN size ELSE maxAlign
         IN  IF \E j \in 1..(i - 1) : data[j].k = k
             THEN [err |-> "DuplicateName", fields |-> <<>>, size |-> 0]
             ELSE alignLoop(data, packed, i + 1, off + size, maxA,
                            Append(fields, [k |-> k, type |-> data[i].m,
                                            size |-> size, offset |-> off]))

alignFields(data, packed) == alignLoop(data, packed, 1, 0, 1, <<>>)

\* struct(data, opts): the class, as far as a field type or a caller sees it
\* (static fields, transform and size).
struct(data, packed, transformers) ==
    LET a == alignFields(data, packed)
    IN  [kind |-> "struct", fields |-> a.fields, size |-> a.size,
         transform |-> transformers]


(***************************************************************************)
(* The schemas of the README.                                              *)
(***************************************************************************)
PersonData == <<Entry("age", DT("UINT8")), Entry("name", charDataType(4))>>

DeviceConfigData == <<Entry("mode", DT("UINT8")), Entry("factor", DT("UINT8"))>>

DeviceConfigStruct == struct(DeviceConfigData, FALSE, <<>>)

DeviceData == <<Entry("id", charDataType(6)), Entry("config", DeviceConfigStruct)>>

AckPacketData == <<Entry("id", charDataType(6))>>

PacketData ==
    <<Entry("header", DT("UINT32LE")), Entry("id", charDataType(6)),
      Entry("method", charDataType(4)), Entry("content", charDataType(64))>>

(***************************************************************************)
(* SpecLayout: alignFields(data, packed) on a schema drawn by the initial  *)
(* condition: the README's schemas, and every schema of at most MaxFields  *)
(* fields over FieldTypes.                                                 *)
(***************************************************************************)
MaxFields == 3

FieldTypes ==
    {DT("UINT8"), DT("INT16BE"), DT("UINT32LE"), DT("FLOAT64LE"),
     charDataType(0), charDataType(4), charDataType(6),
     ArrayDataType(DT("UINT16LE"), 3), DeviceConfigStruct}

FieldNames == <<"a", "b", "c", "d", "e", "f", "g", "h">>

Schemas ==
    {PersonData, DeviceConfigData, DeviceData, AckPacketData, PacketData}
        \cup UNION {{[i \in 1..n |-> Entry(FieldNames[i], ms[i])] :
                        ms \in [1..n -> FieldTypes]} : n \in 0..MaxFields}

LayoutInit ==
    /\ plan \in {[pc |-> "start", data |-> d, packed |-> p,
                  out |-> [err |-> "none", fields |-> <<>>, size |-> 0]] :
                    d \in Schemas, p \in BOOLEAN}
    /\ codec = CodecIdle
    /\ ClassIdle

Plan ==
    /\ plan.pc = "start"
    /\ plan' = [plan EXCEPT !.pc = "done", !.out = alignFields(plan.data, plan.packed)]
    /\ UNCHANGED <<codec, writeData, insts, bufs, last, nops>>

LayoutNext == Plan

SpecLayout == LayoutInit /\ [][LayoutNext]_vars

(***************************************************************************)
(* SpecCodec: write(data, buffer, value, offset) on a Buffer, then         *)
(* read(data, buffer, offset).  The arguments are drawn by the initial     *)
(* condition.                                                              *)
(***************************************************************************)
BufLen == 10

MaxOffset == 2

\* Integers around the bounds of every width, and byte patterns that tell
\* the byte orders apart.
SampleNums ==
    {NumOf(0), NumOf(1), NumOf(-1), NumOf(127), NumOf(128), NumOf(-128),
     NumOf(-129), NumOf(200), NumOf(255), NumOf(256), NumOf(4660), NumOf(-4660),
     NumOf(32767), NumOf(32768), NumOf(-32768), NumOf(-32769), NumOf(65535),
     NumOf(65536), NumOf(305419896), NumOf(-305419896), NumOf(2147483647),
     N(FALSE, 0, 32768, 0, 0), N(TRUE, 0, 32768, 65535, 65535),
     N(TRUE, 65535, 32767, 65535, 65535), N(FALSE, 65535, 65535, 0, 0),
     N(FALSE, 0, 0, 1, 0), N(FALSE, 52719, 35243, 17767, 291),
     N(TRUE, 12817, 30292, 47768, 65244),
     N(FALSE, 65535, 65535, 65535, 32767), N(FALSE, 0, 0, 0, 32768),
     N(TRUE, 0, 0, 0, 32768), N(TRUE, 65535, 65535, 65535, 32767),
     N(FALSE, 65535, 65535, 65535, 65535)}

\* Those a JavaScript number holds exactly: up to 2^53 in magnitude, and +-2^63.
IsExactNumber(n) ==
    \/ ~n.neg /\ n.l[4] < 32
    \/ n.neg /\ n.l[4] >= 65504
    \/ n \in {N(FALSE, 0, 0, 0, 32768), N(TRUE, 0, 0, 0, 32768)}

SampleValues ==
    {Number(n) : n \in {m \in SampleNums : IsExactNumber(m)}}
        \cup {BigInt(n) : n \in SampleNums} \cup {Fraction, Undefined}

CodecInit ==
    /\ codec \in {[pc |-> "start",
                   data |-> AlignedData(DT(name), doff, getDataTypeSize(DT(name))),
                   offset |-> off, value |-> v,
                   buffer |-> [i \in 1..BufLen |-> byte],
                   err |-> "none", out |-> Raise("none")] :
                     name \in IntTypeNames, doff \in {0, 1}, off \in 0..MaxOffset,
                     v \in SampleValues, byte \in {0, 255}}
    /\ plan = PlanIdle
    /\ ClassIdle

CodecWrite ==
    /\ codec.pc = "start"
    /\ LET r == write(codec.data, codec.buffer, codec.value, codec.offset)
       IN  codec' = [codec EXCEPT !.pc = "written", !.buffer = r.buffer, !.err = r.err]
    /\ UNCHANGED <<plan, writeData, insts, bufs, last, nops>>

CodecRead ==
    /\ codec.pc = "written"
    /\ codec' = [codec EXCEPT !.pc = "read",
                              !.out = read(codec.data, codec.buffer, codec.offset)]
    /\ UNCHANGED <<plan, writeData, insts, bufs, last, nops>>

CodecNext == CodecWrite \/ CodecRead

SpecCodec == CodecInit /\ [][CodecNext]_vars

\* The width in bytes and the signedness a DataType's name states.
WidthOf(name) ==
    CASE name \in {"INT8", "UINT8"} -> 1
      [] name \in {"INT16LE", "INT16BE", "UINT16LE", "UINT16BE"} -> 2
      [] name \in {"INT32LE", "INT32BE", "UINT32LE", "UINT32BE"} -> 4
      [] OTHER -> 8

IsSigned(name) ==
    name \in {"INT8", "INT16LE", "INT16BE", "INT32LE", "INT32BE", "INT64LE", "INT64BE"}

\* n lies in [0, 2^(8w)) (unsigned) or [-2^(8w-1), 2^(8w-1)) (signed): the
\* numeral is the extension of its low w bytes.
InRange(name, n) ==
    LET w == WidthOf(name)
    IN  IF IsSigned(name)
        THEN \/ ~n.neg /\ ByteOf(n, w - 1) < 128 /\ \A j \in w..7 : ByteOf(n, j) = 0
             \/ n.neg /\ ByteOf(n, w - 1) >= 128 /\ \A j \in w..7 : ByteOf(n, j) = 255
        ELSE ~n.neg /\ \A j \in w..7 : ByteOf(n, j) = 0

\* The value is of the kind the type takes: a number, or for a 64-bit type a
\* bigint (or a number, which write converts).
TakesValue(name, v) ==
    \/ v.t = "number"
    \/ v.t = "bigint" /\ WidthOf(name) = 8

CodecFits ==
    InBounds(codec.buffer, codec.offset + codec.data.offset, WidthOf(codec.data.type.name))

\* C1: for every integer DataType, every in-range integer v and every offset
\* at which the value fits in the buffer, write succeeds and read(type, buf,
\* off) right after write(type, buf, v, off) returns v: a number for the 8-,
\* 16- and 32-bit types, a bigint of the same value for the 64-bit types.
C1_ReadAfterWrite ==
    (/\ codec.pc \in {"written", "read"}
     /\ TakesValue(codec.data.type.name, codec.value)
     /\ InRange(codec.data.type.name, codec.value.n)
     /\ CodecFits)
        => /\ codec.err = "none"
           /\ read(codec.data, codec.buffer, codec.offset) =
                 Ret(IF WidthOf(codec.data.type.name) = 8
                     THEN BigInt(codec.value.n) ELSE Number(codec.value.n))
           /\ codec.pc = "read" =>
                 codec.out = read(codec.data, codec.buffer, codec.offset)

\* A negative 64-bit value written big-endian over a 0xFF-filled Buffer and read back.
C1_Witness ==
    /\ codec.pc = "read"
    /\ codec.data.type.name = "INT64BE"
    /\ codec.value = BigInt(N(TRUE, 12817, 30292, 47768, 65244))
    /\ codec.offset + codec.data.offset = 2
    /\ codec.err = "none"
    /\ codec.out = Ret(codec.value)
    /\ codec.buffer[3] = 254 /\ codec.buffer[10] = 17 /\ codec.buffer[1] = 255

(***************************************************************************)
(* The layout claims (SpecLayout).                                         *)
(***************************************************************************)
\* The size a declared type stands for: the scalar's width, element size x
\* length for an array, the nested structure's total size.
RECURSIVE DeclaredSize(_)
DeclaredSize(m) ==
    CASE m.kind = "scalar" ->
            IF m.name \in {"FLOAT32LE", "FLOAT32BE"} THEN 4 ELSE WidthOf(m.name)
      [] m.kind = "array" -> DeclaredSize(m.elem) * m.length
      [] OTHER -> m.size

\* The sum of the declared sizes of the first n entries.
RECURSIVE SumSizes(_, _)
SumSizes(data, n) ==
    IF n = 0 THEN 0 ELSE SumSizes(data, n - 1) + DeclaredSize(data[n].m)

RECURSIVE IsPow2(_)
IsPow2(n) == n = 1 \/ (n > 1 /\ n % 2 = 0 /\ IsPow2(n \div 2))

\* ceil(n / a) * a, for a >= 1
NextMultiple(n, a) == ((n + a - 1) \div a) * a

Planned == plan.pc = "done" /\ plan.out.err = "none"

\* The end of the field before field i, and of the last field.
PrevEnd(i) ==
    IF i = 1 THEN 0 ELSE plan.out.fields[i - 1].offset + plan.out.fields[i - 1].size

LastEnd == PrevEnd(Len(plan.out.fields) + 1)

\* The largest field size of the schema, 1 at least.
MaxAlignOf(data) ==
    LET sizes == {1} \cup {DeclaredSize(data[i].m) : i \in 1..Len(data)}
    IN  CHOOSE x \in sizes : \A y \in sizes : y <= x

\* C2: with packed = true, the field offsets are the prefix sums of the
\* preceding fields' sizes in declaration order (the first field at 0) and
\* the struct's size is the sum of all field sizes.
C2_PackedLayout ==
    (plan.pc = "done" /\ plan.packed)
        => /\ plan.out.err = "none"
           /\ Len(plan.out.fields) = Len(plan.data)
           /\ \A i \in 1..Len(plan.data) :
                 /\ plan.out.fields[i].k = plan.data[i].k
                 /\ plan.out.fields[i].size = DeclaredSize(plan.data[i].m)
                 /\ plan.out.fields[i].offset = SumSizes(plan.data, i - 1)
           /\ plan.out.size = SumSizes(plan.data, Len(plan.data))

\* The packed PacketStruct of the README: 4 + 6 + 4 + 64 bytes.
C2_Witness ==
    /\ Planned /\ plan.packed /\ plan.data = PacketData
    /\ Field(plan.out.fields, "content").offset = 14
    /\ plan.out.size = 78

\* C3 as stated: with packed = false every field of size >= 1 is at the
\* smallest multiple of its own size that is >= the end of the previous field.
C3_Original ==
    (Planned /\ ~plan.packed)
        => \A i \in 1..Len(plan.data) :
              DeclaredSize(plan.data[i].m) >= 1 =>
                 plan.out.fields[i].offset =
                    NextMultiple(PrevEnd(i), DeclaredSize(plan.data[i].m))

\* C3, amended: with packed = false a field of size s whose predecessor ends
\* at e is at (e + s - 1) & ~(s - 1): the smallest multiple of s that is >= e
\* when s is a power of two; for any other s >= 1 an offset in [e, e + s)
\* that need not be a multiple of s; and 0 when s is 0.
C3_AlignedOffsets ==
    (plan.pc = "done" /\ ~plan.packed)
        => /\ plan.out.err = "none"
           /\ Len(plan.out.fields) = Len(plan.data)
           /\ \A i \in 1..Len(plan.data) :
                 LET s == DeclaredSize(plan.data[i].m)
                     off == plan.out.fields[i].offset
                 IN  /\ plan.out.fields[i].size = s
                     /\ IsPow2(s) => off = NextMultiple(PrevEnd(i), s)
                     /\ s >= 1 => PrevEnd(i) <= off /\ off < PrevEnd(i) + s
                     /\ s = 0 => off = 0

\* A 6-byte char array after one byte lands at offset 2; a 4-byte one at 4.
C3_Witness ==
    /\ Planned /\ ~plan.packed /\ Len(plan.data) = 3
    /\ plan.data[1].m = DT("UINT8")
    /\ plan.data[2].m = charDataType(6) /\ plan.out.fields[2].offset = 2
    /\ plan.data[3].m = charDataType(4) /\ plan.out.fields[3].offset = 8

\* C4 as stated: with packed = false the total size is ceil(end / maxAlign) *
\* maxAlign; with packed = true it is end.
C4_Original ==
    Planned => plan.out.size =
                  IF plan.packed THEN LastEnd
                  ELSE NextMultiple(LastEnd, MaxAlignOf(plan.data))

\* C4, amended: with packed = false the total size is (end + maxAlign - 1) &
\* ~(maxAlign - 1), end being the end of the last field and maxAlign the
\* largest field size (1 at least): ceil(end / maxAlign) * maxAlign when
\* maxAlign is a power of two, otherwise a size in [end, end + maxAlign) that
\* need not be a multiple of maxAlign.  With packed = true it is end.
C4_TotalSize ==
    plan.pc = "done"
        => /\ plan.out.err = "none"
           /\ Len(plan.out.fields) = Len(plan.data)
           /\ IF plan.packed THEN plan.out.size = LastEnd
              ELSE LET a == MaxAlignOf(plan.data)
                   IN  /\ IsPow2(a) => plan.out.size = NextMultiple(LastEnd, a)
                       /\ LastEnd <= plan.out.size
                       /\ plan.out.size < LastEnd + a

\* struct({id: charDataType(6)}) unpacked: end 6, maxAlign 6, size 10.
C4_Witness ==
    /\ Planned /\ ~plan.packed /\ plan.data = AckPacketData
    /\ LastEnd = 6 /\ MaxAlignOf(plan.data) = 6
    /\ plan.out.size = 10

\* C5: struct({age: UINT8, name: charDataType(4)}) has age at 0, name at 4
\* and size 8 when unpacked, and age at 0, name at 1 and size 5 when packed.
C5_PersonLayout ==
    (plan.pc = "done" /\ plan.data = PersonData)
        => /\ plan.out.err = "none"
           /\ Field(plan.out.fields, "age").offset = 0
           /\ Field(plan.out.fields, "name").offset = (IF plan.packed THEN 1 ELSE 4)
           /\ plan.out.size = (IF plan.packed THEN 5 ELSE 8)

C5_Witness ==
    /\ Planned /\ plan.data = PersonData /\ ~plan.packed
    /\ Field(plan.out.fields, "name") = [k |-> "name", type |-> charDataType(4),
                                         size |-> 4, offset |-> 4]

\* C6: DeviceConfig = struct({mode: UINT8, factor: UINT8}) has size 2, and in
\* Device = struct({id: charDataType(6), config: DeviceConfig}), both
\* unpacked, config is at offset 6 and the size is 8.
C6_DeviceLayout ==
    /\ (plan.pc = "done" /\ ~plan.packed /\ plan.data = DeviceConfigData)
          => plan.out.err = "none" /\ plan.out.size = 2
    /\ (plan.pc = "done" /\ ~plan.packed /\ plan.data = DeviceData)
          => /\ plan.out.err = "none"
             /\ Field(plan.out.fields, "config").type.size = 2
             /\ Field(plan.out.fields, "config").offset = 6
             /\ plan.out.size = 8

C6_Witness ==
    /\ Planned /\ ~plan.packed /\ plan.data = DeviceData
    /\ Field(plan.out.fields, "id").offset = 0
    /\ Field(plan.out.fields, "config").offset = 6
    /\ Field(plan.out.fields, "config").size = 2
    /\ plan.out.size = 8

(***************************************************************************)
(* The class under test: S = struct(SData, {transform: STransform}), with  *)
(* a plain scalar, a scalar stored with a bias of 10, a char array and a   *)
(* nested DeviceConfig.  Layout: age 0, level 1, name 2, config 4, size 6. *)
(***************************************************************************)
SData ==
    <<Entry("age", DT("UINT8")), Entry("level", DT("INT8")),
      Entry("name", charDataType(2)), Entry("config", DeviceConfigStruct)>>

STransform ==
    [level |-> PropertyTransformer(List(<<"add10">>), List(<<"sub10">>))]

S == struct(SData, FALSE, STransform)

\* What a caller passes for a Buffer or an instance: a reference.
BufferRef(j) == [t |-> "buffer", j |-> j]

StructRef(i) == [t |-> "struct", i |-> i]

\* data(): the instance's own Buffer, not a copy of it.
data(i) == [owner |-> "inst", i |-> i]

\* The Buffer behind a reference the caller passes.
BufferOf(arg) ==
    IF arg.t = "buffer" THEN bufs[arg.j] ELSE insts[arg.i].buff

\* The instance a constructor call leaves, construct having returned c.
Instance(c, wd) ==
    [err |-> c.err,
     inst |-> [buff |-> c.buffer, props |-> c.props],
     writeData |-> IF c.err = "none" THEN TRUE ELSE wd]

\* constructor(args), run while the closure's flag is wd: the error thrown,
\* the instance, and the flag afterwards (reset on normal return only).
constructor(args, wd) ==
    Instance(construct(S.fields, S.transform, args, alloc(S.size), 0, wd), wd)

\* from, after `new this({})` gave n and copy into inst.data() gave c.
Filled(n, c) ==
    [err |-> c.err,
     inst |-> [n.inst EXCEPT !.buff = IF data(0).owner = "inst" THEN c.buffer ELSE @],
     writeData |-> n.writeData]

\* from, after `new this({})` gave n.
fromCopy(n, source, offset) ==
    IF n.err # "none" THEN [err |-> n.err, writeData |-> n.writeData]
    ELSE Filled(n, copy(source, n.inst.buff, 0, offset, offset + S.size))

\* static from(arg, offset): the flag is cleared before the argument is
\* looked at.  arg.size is undefined for an instance, and `size > undefined`
\* is false.
from(arg, offset) ==
    IF arg.t \in {"null", "undefined"}
    THEN [err |-> "TypeError", writeData |-> FALSE]
    ELSE IF arg.t = "buffer" /\ S.size > Len(BufferOf(arg))
    THEN [err |-> "InvalidBufferSize", writeData |-> FALSE]
    ELSE fromCopy(constructor(Object(<<>>), FALSE), BufferOf(arg), offset)

\* static toJson(buffer) without the test of buffer.length
S_toJson_NoCheck(buffer) ==
    readStruct(AlignedData(S, 0, S.size), buffer, 0, FALSE)

\* static toJson(buffer)
S_toJson(buffer) ==
    IF Len(buffer) < S.size THEN Raise("InvalidBufferSize")
    ELSE readStruct(AlignedData(S, 0, S.size), buffer, 0, FALSE)

\* copy(target, offset) of an instance whose Buffer is buff
inst_copy(buff, target, offset) ==
    copy(BufferOf(target), buff, 0, offset, offset + S.size)

\* reset()
reset(buff) == fill(buff, 0)

\* toJson() reading in mutable mode: accessors in place of values.
toJson_Mutable(buff) == readStruct(AlignedData(S, 0, S.size), buff, 0, TRUE)

\* toJson() of an instance whose Buffer is buff
toJson(buff) == readStruct(AlignedData(S, 0, S.size), buff, 0, FALSE)

\* A second class, T = struct({items: [DeviceConfigStruct, 2]}): an array of
\* structures, size 4.
TData == <<Entry("items", ArrayDataType(DeviceConfigStruct, 2))>>

T == struct(TData, FALSE, <<>>)

\* static toJson(buffer) of T
T_toJson(buffer) ==
    IF Len(buffer) < T.size THEN Raise("InvalidBufferSize")
    ELSE readStruct(AlignedData(T, 0, T.size), buffer, 0, FALSE)

(***************************************************************************)
(* What a caller does with a tree toJson returned.  A property of the tree *)
(* is a plain value, or - had readStruct run in mutable mode - an accessor *)
(* of a View on the Buffer the tree was read from.  An array index is the  *)
(* property key "0", "1", ...                                              *)
(***************************************************************************)
IndexOf(key) == CASE key = "0" -> 1 [] key = "1" -> 2 [] OTHER -> 0

RECURSIVE FirstView(_, _)
\* The first View on the way from the root along the path, and the path
\* left from there.
FirstView(tree, path) ==
    IF tree.t = "view" THEN [found |-> TRUE, view |-> tree, rest |-> path]
    ELSE IF path = <<>> THEN [found |-> FALSE]
    ELSE IF tree.t = "object" /\ path[1] \in DOMAIN tree.p
    THEN FirstView(tree.p[path[1]], Tail(path))
    ELSE IF tree.t = "array" /\ IndexOf(path[1]) \in 1..Len(tree.e)
    THEN FirstView(tree.e[IndexOf(path[1])], Tail(path))
    ELSE [found |-> FALSE]

RECURSIVE PlainSet(_, _, _)
\* tree[path[1]]...[path[n]] = v on plain values.
PlainSet(tree, path, v) ==
    IF path = <<>> THEN v
    ELSE IF tree.t = "object"
    THEN Object([k \in DOMAIN tree.p \cup {path[1]} |->
                   IF k = path[1]
                   THEN PlainSet(GetProp(tree, k), Tail(path), v)
                   ELSE tree.p[k]])
    ELSE IF tree.t = "array"
    THEN Array([i \in 1..Len(tree.e) |->
                  IF i = IndexOf(path[1]) THEN PlainSet(tree.e[i], Tail(path), v)
                  ELSE tree.e[i]])
    ELSE tree

\* view[rest[1]]...= v: the accessor's set(v) for a field of the View; the
\* getter of a struct field on the way never returns.
ViewSet(view, rest, buffer, v) ==
    IF Len(rest) = 1 /\ rest[1] \in Keys(view.type.fields)
    THEN set(Field(view.type.fields, rest[1]), buffer,
             TransformerOf(view.type.transform, rest[1]), view.offset, v)
    ELSE Throw("StackOverflow", buffer)

\* The accessor at the path, if one is there.
AccessorAt(inst, path) ==
    IF Len(path) = 1 THEN inst.props[path[1]]
    ELSE inst.props[path[1]].props[path[2]]

\* accessor.get() on the instance's Buffer
getWith(acc, buff) == get(acc.field, buff, acc.transformer, acc.offset)

\* accessor.set(v) on the instance's Buffer
setWith(acc, buff, v) == set(acc.field, buff, acc.transformer, acc.offset, v)

\* Is the property at the path an accessor defineProxyProperty installed?
IsLive(inst, path) ==
    LET prop == inst.props[path[1]]
    IN  IF Len(path) = 1 THEN prop.kind = "accessor"
        ELSE prop.kind = "object" /\ prop.props[path[2]].kind = "accessor"

(***************************************************************************)
(* Spec: a caller using S.  The inputs it draws from.                      *)
(***************************************************************************)
MaxOps == 2

AB == Array(<<Num(65), Num(66)>>)

NewArgs ==
    {Object([age |-> Num(24), level |-> Num(5), name |-> AB,
             config |-> Object([mode |-> Num(4), factor |-> Num(8)])]),
     Object([age |-> Num(0), level |-> Num(0), name |-> AB]),
     Object([name |-> AB]),
     Object(<<>>),
     Object([age |-> Num(24), name |-> AB, config |-> Object([factor |-> Num(8)])]),
     Object([age |-> Num(300), name |-> AB]),
     Object([age |-> Num(24), name |-> Array(<<Num(65)>>)]),
     Object([age |-> Num(24), name |-> Array(<<Num(65), Num(66), Num(67)>>)])}

ScalarPaths == {<<"age">>, <<"level">>, <<"name">>}

NestedPaths == {<<"config", "mode">>, <<"config", "factor">>}

SetValues(k) ==
    CASE k = "age"    -> {Num(0), Num(24), Num(300)}
      [] k = "level"  -> {Num(0), Num(5)}
      [] k = "name"   -> {Array(<<Num(67), Num(68)>>), Array(<<Num(67)>>),
                          Array(<<Num(67), Num(68), Num(69)>>),
                          Array(<<Num(67), Num(300)>>)}
      [] k = "config" -> {Object([mode |-> Num(1), factor |-> Num(2)])}

NestedValues == {Num(0), Num(9)}

Offsets == {0, 1, 6}

RawBytes == {200}

\* The caller's Buffers: one a byte longer than S, one a byte too short.
CallerBuffers ==
    <<[j \in 1..(S.size + 1) |-> j], [j \in 1..(S.size - 1) |-> 9]>>

Sources == {BufferRef(j) : j \in 1..Len(bufs)} \cup {StructRef(i) : i \in 1..Len(insts)}

Init ==
    /\ codec = CodecIdle
    /\ plan = PlanIdle
    /\ writeData = TRUE
    /\ insts = <<>>
    /\ bufs = CallerBuffers
    /\ last = [op |-> "none"]
    /\ nops = 0

\* A constructor or from call returned r: the instance joins the caller's.
Created(call, r) ==
    /\ writeData' = r.writeData
    /\ insts' = IF r.err = "none" THEN Append(insts, r.inst) ELSE insts
    /\ last' = call @@ [err |-> r.err, i |-> Len(insts) + 1]

\* One Buffer held by every instance of the class.
OwnBuffer_Shared(i) == 1

\* Which Buffer the __buff__ of the i-th instance is: the one alloc(size)
\* returned when the instance was made, a Buffer of its own.
OwnBuffer(i) == i

\* A call on instance i left its Buffer as r.buffer.
Written(call, i, r) ==
    /\ insts' = [k \in 1..Len(insts) |->
                   IF OwnBuffer(k) = OwnBuffer(i)
                   THEN [insts[k] EXCEPT !.buff = r.buffer] ELSE insts[k]]
    /\ last' = call @@ [i |-> i, err |-> r.err]

\* A call returned r.value and changed nothing.
Returned(call, r) ==
    /\ last' = call @@ [err |-> r.err, out |-> r.value]
    /\ UNCHANGED <<codec, plan, writeData, insts, bufs, nops>>

\* new S(args)
New ==
    /\ nops < MaxOps
    /\ \E args \in NewArgs :
         Created([op |-> "new", args |-> args, wd |-> writeData],
                 constructor(args, writeData))
    /\ nops' = nops + 1
    /\ UNCHANGED <<codec, plan, bufs>>

\* S.from(arg, offset)
From ==
    /\ nops < MaxOps
    /\ \E arg \in Sources \cup {Null}, offset \in Offsets :
         Created([op |-> "from", arg |-> arg, offset |-> offset], from(arg, offset))
    /\ nops' = nops + 1
    /\ UNCHANGED <<codec, plan, bufs>>

\* The calls that leave every instance and every Buffer as it was: they
\* change nothing but the record of the last call, which they overwrite.  A
\* read taken after one of them therefore reaches exactly the state the same
\* read reaches from the state before it, and the reads are taken from the
\* states the other calls leave.
Reads == {"get", "toJson", "S.toJson", "T.toJson", "tree.set"}

\* S.toJson(buffer)
StaticToJson ==
    /\ last.op \notin Reads
    /\ \E j \in 1..Len(bufs) :
        Returned([op |-> "S.toJson", j |-> j], S_toJson(bufs[j]))

\* inst.copy(target, offset)
Copy ==
    /\ nops < MaxOps
    /\ \E i \in 1..Len(insts), target \in Sources, offset \in Offsets :
         Written([op |-> "copy", arg |-> target, offset |-> offset], i,
                 inst_copy(insts[i].buff, target, offset))
    /\ nops' = nops + 1
    /\ UNCHANGED <<codec, plan, writeData, bufs>>

\* inst.reset()
Reset ==
    /\ nops < MaxOps
    /\ \E i \in 1..Len(insts) :
         Written([op |-> "reset"], i, Ok(reset(insts[i].buff)))
    /\ nops' = nops + 1
    /\ UNCHANGED <<codec, plan, writeData, bufs>>

\* inst.toJson()
ToJson ==
    /\ last.op \notin Reads
    /\ \E i \in 1..Len(insts) :
        Returned([op |-> "toJson", i |-> i], toJson(insts[i].buff))

\* inst.data()[pos] = byte
DataWrite ==
    /\ nops < MaxOps
    /\ \E i \in 1..Len(insts), pos \in {0, S.size - 1}, byte \in RawBytes :
         Written([op |-> "data", pos |-> pos, byte |-> byte], i,
                 Ok(IF data(i).owner = "inst"
                    THEN [insts[i].buff EXCEPT ![pos + 1] = byte]
                    ELSE insts[i].buff))
    /\ nops' = nops + 1
    /\ UNCHANGED <<codec, plan, writeData, bufs>>

\* inst[k] = v, where the property is an accessor: its set(v).
Set ==
    /\ nops < MaxOps
    /\ \E i \in 1..Len(insts), path \in ScalarPaths :
         \E v \in SetValues(path[1]) :
           /\ IsLive(insts[i], path)
           /\ Written([op |-> "set", path |-> path, arg |-> v, live |-> TRUE], i,
                      setWith(AccessorAt(insts[i], path), insts[i].buff, v))
    /\ nops' = nops + 1
    /\ UNCHANGED <<codec, plan, writeData, bufs>>

\* inst[k] = v, where the property is the plain object of a nested
\* structure: an assignment that replaces the object.
Assign ==
    /\ nops < MaxOps
    /\ \E i \in 1..Len(insts), k \in {"config"} :
         \E v \in SetValues(k) :
           /\ insts[i].props[k].kind # "accessor"
           /\ insts' = [insts EXCEPT ![i].props[k] = PlainValue(v)]
           /\ last' = [op |-> "set", path |-> <<k>>, arg |-> v, live |-> FALSE,
                       i |-> i, err |-> "none"]
    /\ nops' = nops + 1
    /\ UNCHANGED <<codec, plan, writeData, bufs>>

\* inst[k][sub] = v through the nested object construct made: the
\* sub-field accessor's set(v).
SetNested ==
    /\ nops < MaxOps
    /\ \E i \in 1..Len(insts), path \in NestedPaths, v \in NestedValues :
         /\ IsLive(insts[i], path)
         /\ Written([op |-> "set", path |-> path, arg |-> v, live |-> TRUE], i,
                    setWith(AccessorAt(insts[i], path), insts[i].buff, v))
    /\ nops' = nops + 1
    /\ UNCHANGED <<codec, plan, writeData, bufs>>

\* inst[k] or inst[k][sub], read through the accessor
Get ==
    /\ last.op \notin Reads
    /\ \E i \in 1..Len(insts), path \in ScalarPaths \cup NestedPaths :
        /\ IsLive(insts[i], path)
        /\ Returned([op |-> "get", i |-> i, path |-> path, live |-> TRUE],
                    getWith(AccessorAt(insts[i], path), insts[i].buff))

\* inst[k][sub], read from an object the caller assigned
GetAssigned ==
    /\ last.op \notin Reads
    /\ \E i \in 1..Len(insts), path \in NestedPaths :
        /\ insts[i].props[path[1]].kind = "data"
        /\ Returned([op |-> "get", i |-> i, path |-> path, live |-> FALSE],
                    Ret(GetProp(insts[i].props[path[1]].value, path[2])))

\* T.toJson(buffer)
ListToJson ==
    /\ last.op \notin Reads
    /\ \E j \in 1..Len(bufs) :
        Returned([op |-> "T.toJson", j |-> j], T_toJson(bufs[j]))

\* The calls that return a tree, and the properties a caller assigns in it.
TreeOps == {"toJson", "S.toJson", "T.toJson"}

TreePaths(op) ==
    IF op = "T.toJson" THEN {<<"items", "0", "mode">>}
    ELSE {<<"age">>, <<"config", "factor">>}

TreeValues == {Num(9)}

\* The Buffer the tree in `last` was read from.
TreeBuffer == IF last.op = "toJson" THEN insts[last.i].buff ELSE bufs[last.j]

\* The assignment went through an accessor of a View and left r.
TreeStored(call, r) ==
    /\ insts' = IF last.op = "toJson"
                THEN [insts EXCEPT ![last.i].buff = r.buffer] ELSE insts
    /\ bufs' = IF last.op = "toJson" THEN bufs
               ELSE [bufs EXCEPT ![last.j] = r.buffer]
    /\ last' = call @@ [err |-> r.err, out |-> last.out]

\* The assignment of v at the path of the tree, fv telling whether a View
\* is on the way.
TreeAssigned(call, path, v, fv) ==
    IF fv.found
    THEN TreeStored(call, ViewSet(fv.view, fv.rest, TreeBuffer, v))
    ELSE /\ last' = call @@ [err |-> "none", out |-> PlainSet(last.out, path, v)]
         /\ UNCHANGED <<insts, bufs>>

\* tree[path] = v on the tree the last toJson returned
TreeWrite ==
    /\ last.op \in TreeOps
    /\ last.err = "none"
    /\ \E path \in TreePaths(last.op), v \in TreeValues :
         TreeAssigned([op |-> "tree.set", path |-> path, arg |-> v], path, v,
                      FirstView(last.out, path))
    /\ UNCHANGED <<codec, plan, writeData, nops>>

Next ==
    \/ New
    \/ From
    \/ StaticToJson
    \/ Copy
    \/ Reset
    \/ ToJson
    \/ DataWrite
    \/ Set
    \/ Assign
    \/ SetNested
    \/ Get
    \/ GetAssigned
    \/ ListToJson
    \/ TreeWrite

Spec == Init /\ [][Next]_vars


(***************************************************************************)
(* Claims about instances of S.                                            *)
(***************************************************************************)
\* The byte offset the layout gives the field at the path: the field's own
\* offset, plus the parent field's for a sub-field.
LayoutOffset(path) ==
    IF Len(path) = 1 THEN Field(S.fields, path[1]).offset
    ELSE Field(S.fields, path[1]).offset
           + Field(Field(S.fields, path[1]).type.fields, path[2]).offset

\* The bytes of the field at the path.
FieldBytes(buff, path) ==
    LET size == IF Len(path) = 1 THEN Field(S.fields, path[1]).size
                ELSE Field(Field(S.fields, path[1]).type.fields, path[2]).size
    IN  SubSeq(buff, LayoutOffset(path) + 1, LayoutOffset(path) + size)

\* What the bytes of the field at the path stand for: age an unsigned byte,
\* level a signed byte less the bias, name its two bytes, a sub-field of
\* config an unsigned byte.
Decoded(buff, path) ==
    LET b == FieldBytes(buff, path)
    IN  CASE path = <<"age">>   -> Num(b[1])
          [] path = <<"level">> -> Num((IF b[1] >= 128 THEN b[1] - 256 ELSE b[1]) - 10)
          [] path = <<"name">>  -> Array(<<Num(b[1]), Num(b[2])>>)
          [] OTHER              -> Num(b[1])

\* args supplies a value for k.
Supplied(args, k) == k \in DOMAIN args.p /\ args.p[k].t # "undefined"

\* C7: after new S(args) returns, every top-level scalar or array field for
\* which args supplies a value - a falsy one such as 0 included - holds the
\* bytes that assigning that value through the field's setter on a zeroed
\* instance produces (the value passed through the input transformers and
\* written at the field's offset).
C7_ConstructorWritesSupplied ==
    (last.op = "new" /\ last.err = "none" /\ last.wd) =>
        \A path \in ScalarPaths :
            Supplied(last.args, path[1]) =>
                FieldBytes(insts[last.i].buff, path)
                  = FieldBytes(setWith(AccessorAt(insts[last.i], path),
                                       alloc(S.size), last.args.p[path[1]]).buffer,
                               path)

\* C8: whatever calls came before, failed from calls included, a new S(args)
\* of the caller runs with field writes on: the instance's Buffer is the one
\* construct fills from args in write mode.
C8_ConstructorAlwaysWrites ==
    (last.op = "new" /\ last.err = "none") =>
        /\ last.wd
        /\ insts[last.i].buff
             = construct(S.fields, S.transform, last.args, alloc(S.size), 0, TRUE).buffer

\* C9: a read through a live accessor - a top-level scalar or array field, or
\* a sub-field of the nested structure - returns what the instance's Buffer
\* holds at that moment at the field's offset, decoded and passed through the
\* output transformers, however the bytes got there (setter, another
\* accessor, copy, reset, a write into the Buffer data() returned, which is
\* the instance's own).
C9_LiveReads ==
    /\ \A i \in 1..Len(insts), path \in ScalarPaths \cup NestedPaths :
         IsLive(insts[i], path) =>
             getWith(AccessorAt(insts[i], path), insts[i].buff)
               = Ret(Decoded(insts[i].buff, path))
    /\ (last.op = "get" /\ last.live) =>
         /\ last.err = "none"
         /\ last.out = Decoded(insts[last.i].buff, last.path)
    /\ last.op = "data" => insts[last.i].buff[last.pos + 1] = last.byte

\* A read of age returned the byte a write into data() put there.
C9_Witness ==
    /\ last.op = "get" /\ last.live
    /\ last.path = <<"age">>
    /\ last.out = Num(200)

\* C10: a write of a sub-field through the nested live view stores the value
\* in the parent instance's own Buffer at parent-field offset + sub-field
\* offset, and a read of the sub-field returns it.
C10_NestedWrite ==
    (last.op = "set" /\ last.live /\ Len(last.path) = 2 /\ last.err = "none") =>
        /\ insts[last.i].buff[LayoutOffset(last.path) + 1] = IntOf(last.arg.n)
        /\ LayoutOffset(last.path)
             = Field(S.fields, "config").offset
                 + Field(DeviceConfigStruct.fields, last.path[2]).offset
        /\ getWith(AccessorAt(insts[last.i], last.path), insts[last.i].buff)
             = Ret(last.arg)

\* device.config.factor = 9 landed in byte 5 of the device's Buffer.
C10_Witness ==
    /\ last.op = "set" /\ last.live
    /\ last.path = <<"config", "factor">>
    /\ last.arg = Num(9)
    /\ last.err = "none"
    /\ insts[last.i].buff[6] = 9


\* The bytes a source has from the offset on.
Available(arg, offset) == Len(BufferOf(arg)) - offset

\* C11: S.from(source, offset) fails with InvalidBufferSize exactly when the
\* source - a Buffer or another instance - is shorter than offset + S.size,
\* and succeeds otherwise.
C11_FromValidates ==
    (last.op = "from" /\ last.arg.t \in {"buffer", "struct"}) =>
        IF Len(BufferOf(last.arg)) < last.offset + S.size
        THEN last.err = "InvalidBufferSize"
        ELSE last.err = "none"

\* C12: when S.from(source, offset) succeeds, the new instance's Buffer holds
\* exactly the S.size bytes source[offset .. offset + S.size), and the source
\* is as it was.
C12_FromCopies ==
    (last.op = "from" /\ last.err = "none") =>
        /\ Available(last.arg, last.offset) >= S.size
        /\ insts[last.i].buff
             = SubSeq(BufferOf(last.arg), last.offset + 1, last.offset + S.size)
        /\ bufs = CallerBuffers


(***************************************************************************)
(* Claims about write's validation and byte order (SpecCodec).             *)
(***************************************************************************)
\* The value is a mathematical integer.
IsInteger(v) == v.t \in {"number", "bigint"}

\* n is the least or the greatest value of the type, told by its bytes: the
\* low w bytes 00..00 80 or FF..FF 7F (signed), 00..00 or FF..FF (unsigned).
IsBound(name, n) ==
    LET w == WidthOf(name)
    IN  /\ InRange(name, n)
        /\ IF IsSigned(name)
           THEN \/ /\ n.neg
                   /\ ByteOf(n, w - 1) = 128
                   /\ \A j \in 0..(w - 2) : ByteOf(n, j) = 0
                \/ /\ ~n.neg
                   /\ ByteOf(n, w - 1) = 127
                   /\ \A j \in 0..(w - 2) : ByteOf(n, j) = 255
           ELSE \/ \A j \in 0..(w - 1) : ByteOf(n, j) = 0
                \/ \A j \in 0..(w - 1) : ByteOf(n, j) = 255

IsBE(name) ==
    name \in {"INT16BE", "UINT16BE", "INT32BE", "UINT32BE", "INT64BE", "UINT64BE"}

\* C15: a write of a 16-, 32- or 64-bit integer stores byte j of the value's
\* two's complement (j = 0 the least significant) at address pos + j for an
\* LE type and at pos + w - 1 - j for a BE type; UINT16LE 0x1234 at offset 0
\* gives 34 12 and UINT16BE gives 12 34.
C15_ByteOrder ==
    LET name == codec.data.type.name
        w == WidthOf(name)
        pos == codec.offset + codec.data.offset
    IN  (codec.pc \in {"written", "read"} /\ codec.err = "none") =>
            /\ w > 1 =>
                 \A j \in 0..(w - 1) :
                     codec.buffer[pos + 1 + (IF IsBE(name) THEN w - 1 - j ELSE j)]
                       = ByteOf(codec.value.n, j)
            /\ (codec.value = Num(4660) /\ pos = 0 /\ name = "UINT16LE") =>
                 SubSeq(codec.buffer, 1, 2) = <<52, 18>>
            /\ (codec.value = Num(4660) /\ pos = 0 /\ name = "UINT16BE") =>
                 SubSeq(codec.buffer, 1, 2) = <<18, 52>>

\* UINT16BE 0x1234 written at offset 0: the bytes 12 34.
C15_Witness ==
    /\ codec.pc = "written"
    /\ codec.err = "none"
    /\ codec.data.type.name = "UINT16BE"
    /\ codec.value = Num(4660)
    /\ codec.offset + codec.data.offset = 0
    /\ SubSeq(codec.buffer, 1, 2) = <<18, 52>>

(***************************************************************************)
(* More claims about instances of S.                                       *)
(***************************************************************************)
\* The value is a sequence of a length other than the array field's.
WrongLength(v, path) ==
    /\ v.t = "array"
    /\ Len(v.e) # Field(S.fields, path[1]).type.length

\* C14: a write of an array field with a sequence shorter or longer than
\* the declared length fails with InvalidLength and writes no element,
\* through the constructor (no instance comes back) and through the live
\* setter (the instance's Buffer stays as it was).
C14_ArrayLength ==
    /\ []((/\ last.op = "new"
           /\ Supplied(last.args, "name")
           /\ WrongLength(last.args.p["name"], <<"name">>))
             => last.err = "InvalidLength")
    /\ [][(/\ last'.op = "set"
           /\ last'.path = <<"name">>
           /\ WrongLength(last'.arg, <<"name">>))
             => (last'.err = "InvalidLength" /\ insts' = insts)]_vars


\* C16: the Buffer of every instance has the length S.size, whatever calls
\* were made: constructions, from, sets that succeeded or failed, copies
\* from sources shorter or longer than S at any offset, reset, toJson.
C16_BufferLength ==
    \A i \in 1..Len(insts) : Len(insts[i].buff) = S.size

\* A copy from the 5-byte Buffer at offset 1 returned, and the instance
\* still has its 6 bytes.
C16_Witness ==
    /\ last.op = "copy"
    /\ last.arg = BufferRef(2)
    /\ last.offset = 1
    /\ last.err = "none"
    /\ Len(insts[last.i].buff) = 6
    /\ SubSeq(insts[last.i].buff, 1, 4) = <<9, 9, 9, 9>>


RECURSIVE IsPlain(_)
\* The value has plain data properties at every level: no View in it.
IsPlain(v) ==
    CASE v.t = "view"   -> FALSE
      [] v.t = "array"  -> \A i \in 1..Len(v.e) : IsPlain(v.e[i])
      [] v.t = "object" -> \A k \in DOMAIN v.p : IsPlain(v.p[k])
      [] OTHER          -> TRUE

RECURSIVE ReadTree(_, _)
\* What reading every property of the tree returns while the Buffer it came
\* from holds buff: a plain property its value, a View what it decodes.
ReadTree(v, buff) ==
    CASE v.t = "view"   -> readStruct(AlignedData(v.type, v.offset, v.type.size),
                                      buff, 0, FALSE).value
      [] v.t = "array"  -> Array([i \in 1..Len(v.e) |-> ReadTree(v.e[i], buff)])
      [] v.t = "object" -> Object([k \in DOMAIN v.p |-> ReadTree(v.p[k], buff)])
      [] OTHER          -> v

\* C17: the tree toJson returns (of an instance, or static, of S or of T
\* with its array of structures) has plain values at every level; an
\* assignment in the tree changes no byte of any Buffer; and a call that
\* changes the instance's Buffer afterwards leaves what the tree reads as
\* it was.
C17_SnapshotDetached ==
    /\ []((last.op \in TreeOps /\ last.err = "none") => IsPlain(last.out))
    /\ [][last'.op = "tree.set" => (insts' = insts /\ bufs' = bufs)]_vars
    /\ [][(last.op = "toJson" /\ last.err = "none") =>
            ReadTree(last.out, insts'[last.i].buff)
              = ReadTree(last.out, insts[last.i].buff)]_vars

\* items[0].mode = 9 was assigned in the tree T.toJson returned from the
\* caller's 7-byte Buffer, whose first byte still is 1.
C17_Witness ==
    /\ last.op = "tree.set"
    /\ last.path = <<"items", "0", "mode">>
    /\ last.arg = Num(9)
    /\ last.out.p["items"].e[1].p["mode"] = Num(9)
    /\ last.out.p["items"].e[2].p["mode"] = Num(3)
    /\ bufs[1][1] = 1

\* What reading instance[k] returns, compared by value: the views an array
\* of structures holds are read field by field.
LiveValue(acc, buff) == ReadTree(getWith(acc, buff).value, buff)

\* C18: toJson can be called in every state an instance is in; whenever it
\* returns, for every scalar or array field k of the instance, the tree's
\* [k] equals by value what the live accessor of k returns from the same
\* bytes, the output transformers of k applied in both; and so for the
\* array of structures of T read from a Buffer.
C18_SnapshotMatchesReads ==
    /\ (last.op = "toJson") =>
          /\ last.err = "none"
          /\ \A path \in ScalarPaths :
                /\ IsLive(insts[last.i], path)
                /\ getWith(AccessorAt(insts[last.i], path), insts[last.i].buff).err = "none"
                /\ last.out.p[path[1]]
                     = LiveValue(AccessorAt(insts[last.i], path), insts[last.i].buff)
    /\ (last.op = "T.toJson" /\ last.err = "none") =>
          last.out.p["items"]
            = LiveValue(defineProxyProperty(T.fields[1], Undefined, 0), bufs[last.j])

\* toJson returned level 5 for an instance whose Buffer holds the stored 15,
\* and the accessor of level returns 5 too.
C18_Witness ==
    /\ last.op = "toJson"
    /\ last.err = "none"
    /\ insts[last.i].buff[2] = 15
    /\ last.out.p["level"] = Num(5)
    /\ getWith(AccessorAt(insts[last.i], <<"level">>), insts[last.i].buff) = Ret(Num(5))

\* Does the output list of field k invert its input list on v?
RoundTrips(k, v) ==
    applyTransform(OutputOf(TransformerOf(S.transform, k)),
                   applyTransform(InputOf(TransformerOf(S.transform, k)), v)) = v

\* Instance i reads v for field k, and its Buffer holds at k's offset the raw
\* bytes of v passed through the input list.
HoldsRaw(i, k, v) ==
    /\ getWith(AccessorAt(insts[i], <<k>>), insts[i].buff) = Ret(v)
    /\ FieldBytes(insts[i].buff, <<k>>)
         = FieldBytes(write(Field(S.fields, k), alloc(S.size),
                            applyTransform(InputOf(TransformerOf(S.transform, k)), v),
                            0).buffer, <<k>>)

\* C19: level has output list (v - 10) inverting its input list (v + 10).  A
\* value assigned through the live setter, or supplied to the constructor,
\* is what the field reads afterwards, the Buffer holding the stored
\* v + 10.
C19_RoundTrip ==
    /\ (last.op = "set" /\ last.live /\ last.path = <<"level">> /\ last.err = "none"
          /\ RoundTrips("level", last.arg)) =>
         HoldsRaw(last.i, "level", last.arg)
    /\ (last.op = "new" /\ last.err = "none" /\ Supplied(last.args, "level")
          /\ RoundTrips("level", last.args.p["level"])) =>
         HoldsRaw(last.i, "level", last.args.p["level"])

(***************************************************************************)
(* SpecTransform: applyTransform(transformer, v) on its own.  The          *)
(* arguments are drawn by the initial condition: the list absent, empty,   *)
(* or of up to MaxList functions.                                          *)
(***************************************************************************)
MaxList == 2

Functions == {"add10", "sub10", "double"}

RECURSIVE ListsOf(_)
\* The lists of exactly n functions.
ListsOf(n) ==
    IF n = 0 THEN {<<>>}
    ELSE {Append(fs, f) : fs \in ListsOf(n - 1), f \in Functions}

TransformerLists ==
    {Undefined} \cup {List(fs) : fs \in UNION {ListsOf(n) : n \in 0..MaxList}}

TransformValues == {Num(-3), Num(0), Num(1), Num(7), Undefined, Null}

TransformInit ==
    /\ codec = CodecIdle
    /\ plan = PlanIdle
    /\ writeData = TRUE
    /\ insts = <<>>
    /\ bufs = <<>>
    /\ nops = 0
    /\ last \in {[op |-> "input", transformer |-> t, arg |-> v] :
                    t \in TransformerLists, v \in TransformValues}

ApplyTransform ==
    /\ last.op = "input"
    /\ last' = [op |-> "applyTransform", transformer |-> last.transformer,
                arg |-> last.arg, out |-> applyTransform(last.transformer, last.arg)]
    /\ UNCHANGED <<codec, plan, writeData, insts, bufs, nops>>

TransformNext == ApplyTransform

SpecTransform == TransformInit /\ [][TransformNext]_vars

RECURSIVE Composed(_, _)
\* f_n(...f_2(f_1(v))...) for the list f_1, ..., f_n.
Composed(fs, v) ==
    IF fs = <<>> THEN v
    ELSE Call(fs[Len(fs)], Composed(SubSeq(fs, 1, Len(fs) - 1), v))

\* C20: applyTransform(list, v) returns v itself when the list is absent or
\* empty, and otherwise f_n(...f_2(f_1(v))...), the functions applied in list
\* order, each to the result of the one before.
C20_ApplyTransform ==
    last.op = "applyTransform" =>
        IF last.transformer.t = "undefined" THEN last.out = last.arg
        ELSE IF last.transformer.f = <<>> THEN last.out = last.arg
        ELSE last.out = Composed(last.transformer.f, last.arg)

\* applyTransform([v => v + 10, v => v * 2], 1) returned 22.
C20_Witness ==
    /\ last.op = "applyTransform"
    /\ last.transformer = List(<<"add10", "double">>)
    /\ last.arg = Num(1)
    /\ last.out = Num(22)

(***************************************************************************)
(* Claims about copy, static toJson and the ownership of Buffers, under    *)
(* Spec.                                                                   *)
(***************************************************************************)
\* C21: inst.copy(source, offset) fails with InvalidBufferSize when the
\* source - a Buffer or another instance - has fewer than offset + S.size
\* bytes, and otherwise leaves the instance's whole Buffer equal to
\* source[offset .. offset + S.size).
C21_CopyValidates ==
    last.op = "copy" =>
        IF Available(last.arg, last.offset) < S.size
        THEN last.err = "InvalidBufferSize"
        ELSE /\ last.err = "none"
             /\ insts[last.i].buff
                  = SubSeq(BufferOf(last.arg), last.offset + 1, last.offset + S.size)

\* The value at the path of a tree.
TreeAt(tree, path) ==
    IF Len(path) = 1 THEN tree.p[path[1]] ELSE tree.p[path[1]].p[path[2]]

\* C22: S.toJson(buffer) fails with InvalidBufferSize when buffer.length <
\* S.size; otherwise it returns a plain tree that holds at every field - the
\* sub-fields of the nested structure too - the value decoded from the
\* buffer at the field's offset and passed through the output transformers;
\* and the call changes no byte of the buffer.
C22_StaticToJson ==
    /\ [](last.op = "S.toJson" =>
            IF Len(bufs[last.j]) < S.size THEN last.err = "InvalidBufferSize"
            ELSE /\ last.err = "none"
                 /\ IsPlain(last.out)
                 /\ \A path \in ScalarPaths \cup NestedPaths :
                       TreeAt(last.out, path) = Decoded(bufs[last.j], path))
    /\ [][last'.op = "S.toJson" => bufs' = bufs]_vars

\* S.toJson of the caller's 7-byte Buffer 1, 2, ..., 7 returned age 1,
\* level 2 - 10, name [3, 4], config {mode 5, factor 6}.
C22_Witness ==
    /\ last.op = "S.toJson"
    /\ last.err = "none"
    /\ bufs[last.j] = <<1, 2, 3, 4, 5, 6, 7>>
    /\ last.out = Object([age |-> Num(1), level |-> Num(-8),
                          name |-> Array(<<Num(3), Num(4)>>),
                          config |-> Object([mode |-> Num(5), factor |-> Num(6)])])

(***************************************************************************)
(* SpecOwn: two instances a and b of S, b made next to a (new), from a     *)
(* (S.from(a)), filled from a (b.copy(a)) or from the caller's Buffer      *)
(* (S.from(buffer)); then fields of either are written, or it is reset.    *)
(***************************************************************************)
FullArgs ==
    Object([age |-> Num(24), level |-> Num(5), name |-> AB,
            config |-> Object([mode |-> Num(4), factor |-> Num(8)])])

\* b.copy(a) on the instances themselves.
CopiedFrom(b, a) == [b EXCEPT !.buff = copy(a.buff, b.buff, 0, 0, S.size).buffer]

\* The pairs a, b for a given a.
PairsOf(a) ==
    {<<a, constructor(Object([name |-> AB]), TRUE).inst>>,
     <<a, fromCopy(constructor(Object(<<>>), FALSE), a.buff, 0).inst>>,
     <<a, CopiedFrom(constructor(Object([name |-> AB]), TRUE).inst, a)>>,
     <<a, fromCopy(constructor(Object(<<>>), FALSE), CallerBuffers[1], 0).inst>>}

OwnInit ==
    /\ codec = CodecIdle
    /\ plan = PlanIdle
    /\ writeData = TRUE
    /\ insts \in PairsOf(constructor(FullArgs, TRUE).inst)
    /\ bufs = CallerBuffers
    /\ last = [op |-> "none"]
    /\ nops = 0

OwnNext ==
    \/ Set
    \/ SetNested
    \/ Reset
    \/ DataWrite

SpecOwn == OwnInit /\ [][OwnNext]_vars

C24_NestedAssign ==
    (last.op = "set" /\ last.path = <<"config">> /\ last.err = "none") =>
        /\ \A path \in NestedPaths :
              /\ FieldBytes(insts[last.i].buff, path) = <<IntOf(last.arg.p[path[2]].n)>>
              /\ IsLive(insts[last.i], path)

\* Every top-level scalar or array value args supplies is one the field's
\* setter takes.
ValidSupplied(args) ==
    \A path \in ScalarPaths :
        Supplied(args, path[1]) =>
            set(Field(S.fields, path[1]), alloc(S.size),
                TransformerOf(S.transform, path[1]), 0, args.p[path[1]]).err = "none"

\* The sub-field of config at the path is omitted by args.
NestedOmitted(args, path) ==
    ~Supplied(args, "config") \/ ~Supplied(args.p["config"], path[2])

\* C25: new S(args) succeeds whichever fields args omits - scalar, array or
\* nested structure; the bytes of every omitted field are zero, and every
\* field, written or not, has its live accessor.
C25_OmittedFields ==
    (last.op = "new" /\ ValidSupplied(last.args)) =>
        /\ last.err = "none"
        /\ \A path \in ScalarPaths :
              /\ IsLive(insts[last.i], path)
              /\ ~Supplied(last.args, path[1]) =>
                    \A j \in DOMAIN FieldBytes(insts[last.i].buff, path) :
                        FieldBytes(insts[last.i].buff, path)[j] = 0
        /\ \A path \in NestedPaths :
              /\ IsLive(insts[last.i], path)
              /\ NestedOmitted(last.args, path) =>
                    FieldBytes(insts[last.i].buff, path) = <<0>>

(***************************************************************************)
(* More claims about the layout, under SpecLayout.                         *)
(***************************************************************************)
\* C26: struct({id: charDataType(6)}) has size 6 packed and 10 unpacked;
\* struct({header: UINT32LE, id: charDataType(6), method: charDataType(4),
\* content: charDataType(64)}) has size 78 packed and 128 unpacked.
C26_ReadmeSizes ==
    plan.pc = "done" =>
        /\ plan.data = AckPacketData =>
              (plan.out.err = "none" /\ plan.out.size = IF plan.packed THEN 6 ELSE 10)
        /\ plan.data = PacketData =>
              (plan.out.err = "none" /\ plan.out.size = IF plan.packed THEN 78 ELSE 128)

\* The unpacked PacketStruct was laid out: header 0, id 8, method 16,
\* content 64, size 128.
C26_Witness ==
    /\ plan.pc = "done"
    /\ plan.data = PacketData
    /\ ~plan.packed
    /\ [i \in 1..4 |-> plan.out.fields[i].offset] = <<0, 8, 16, 64>>
    /\ plan.out.size = 128

\* The byte range [offset, offset + size) of a field, as a set.
RangeOf(field) == field.offset .. (field.offset + field.size - 1)

\* C27: for every schema, packed or not, over scalars, arrays of any length
\* (0 included) and nested structures, the layout has offsets that do not
\* decrease in declaration order, ranges of distinct fields of non-zero size
\* that are pairwise disjoint, and every range inside [0, size).
C27_LayoutDisjoint ==
    (plan.pc = "done" /\ plan.out.err = "none") =>
        /\ \A i \in 1..(Len(plan.out.fields) - 1) :
              plan.out.fields[i].offset <= plan.out.fields[i + 1].offset
        /\ \A i, j \in 1..Len(plan.out.fields) :
              i # j => RangeOf(plan.out.fields[i]) \cap RangeOf(plan.out.fields[j]) = {}
        /\ \A i \in 1..Len(plan.out.fields) :
              /\ plan.out.fields[i].offset >= 0
              /\ plan.out.fields[i].offset + plan.out.fields[i].size <= plan.out.size

(***************************************************************************)
(* Claims about what a write leaves behind, under Spec.                    *)
(***************************************************************************)
\* C28: a call that fails - a set of an array or nested-structure field, a
\* constructor, from, copy - leaves every Buffer with exactly the bytes it
\* had before the call: no instance's Buffer and no Buffer of the caller
\* changes in a step that ends with an error.
C28_AllOrNothing ==
    [][last'.err # "none" =>
          /\ bufs' = bufs
          /\ \A i \in 1..Len(insts) : insts'[i].buff = insts[i].buff]_vars

(***************************************************************************)
(* SpecView: the class U = struct({nodes: [Node, 2]}, packed), with        *)
(* Node = struct({tag: UINT8, config: DeviceConfigStruct}, packed), an     *)
(* array of structures that hold a nested structure.  The accessor of      *)
(* `nodes` is read on a Buffer of U.size bytes drawn by the initial        *)
(* condition, and then a field of one of the elements it returned.         *)
(***************************************************************************)
NodeData == <<Entry("tag", DT("UINT8")), Entry("config", DeviceConfigStruct)>>

Node == struct(NodeData, TRUE, <<>>)

UData == <<Entry("nodes", ArrayDataType(Node, 2))>>

U == struct(UData, TRUE, <<>>)

ViewBytes == {0, 7}

ViewPaths == {<<"tag">>, <<"config">>, <<"config", "mode">>, <<"config", "factor">>}

\* view[k]: the get() of the accessor readStruct installed for k.
ViewGet(view, k, buffer) ==
    get(Field(view.type.fields, k), buffer,
        TransformerOf(view.type.transform, k), view.offset)

\* view[path[1]][path[2]], first being what view[path[1]] gave.
PathNext(first, path, buffer) ==
    IF first.err # "none" \/ Len(path) = 1 THEN first
    ELSE IF first.value.t = "view" THEN ViewGet(first.value, path[2], buffer)
    ELSE Ret(GetProp(first.value, path[2]))

\* nodes[i][path[1]]..., nodes being what the accessor of `nodes` gave.
ElementRead(nodes, i, path, buffer) ==
    IF nodes.err # "none" THEN nodes
    ELSE PathNext(ViewGet(nodes.value.e[i + 1], path[1], buffer), path, buffer)

ViewInit ==
    /\ codec = CodecIdle
    /\ plan = PlanIdle
    /\ writeData = TRUE
    /\ insts = <<>>
    /\ bufs \in {<<b>> : b \in [1..U.size -> ViewBytes]}
    /\ last = [op |-> "none"]
    /\ nops = 0

\* u.nodes[i][k] or u.nodes[i][k][sub] on the instance u of U whose Buffer
\* is bufs[1]
ViewRead ==
    \E i \in 0..(U.fields[1].type.length - 1), path \in ViewPaths :
        Returned([op |-> "view.get", i |-> i, path |-> path],
                 ElementRead(getWith(defineProxyProperty(U.fields[1], Undefined, 0),
                                     bufs[1]),
                             i, path, bufs[1]))

ViewNext == ViewRead

SpecView == ViewInit /\ [][ViewNext]_vars

\* The offset of the field at the path within a Node.
NodeOffset(path) ==
    IF Len(path) = 1 THEN Field(Node.fields, path[1]).offset
    ELSE Field(Node.fields, path[1]).offset
           + Field(DeviceConfigStruct.fields, path[2]).offset

\* C29: reading nodes through its live accessor returns, and every field of
\* every element it yields can be read - the nested structure config
\* too, as a live sub-view - each read returning the value decoded from the
\* Buffer at array offset + i * element size + field offset.
C29_ViewReads ==
    last.op = "view.get" =>
        /\ last.err = "none"
        /\ IF last.path = <<"config">> THEN last.out.t \in {"view", "object"}
           ELSE last.out = Num(bufs[1][U.fields[1].offset + last.i * Node.size
                                       + NodeOffset(last.path) + 1])

(***************************************************************************)
(* The frame of a scalar set, under Spec.                                  *)
(***************************************************************************)
\* The scalar fields of S that have a live accessor: top-level and nested.
ScalarFieldPaths == {<<"age">>, <<"level">>} \cup NestedPaths

\* The positions of the Buffer the field at the path occupies.
FieldRange(path) ==
    {LayoutOffset(path) + j : j \in 1..Len(FieldBytes(alloc(S.size), path))}

\* C30: a step that sets a scalar field through its live accessor - a
\* top-level field or a sub-field of the nested view, the set succeeding or
\* failing - changes no byte of the instance's Buffer outside the field's
\* range, so every other field reads what it read before.
C30_SetFrame ==
    [][(last'.op = "set" /\ last'.live /\ last'.path \in ScalarFieldPaths) =>
          /\ \A j \in 1..S.size :
                j \notin FieldRange(last'.path) =>
                    insts'[last'.i].buff[j] = insts[last'.i].buff[j]
          /\ \A path \in (ScalarPaths \cup NestedPaths) \ {last'.path} :
                IsLive(insts[last'.i], path) =>
                    getWith(AccessorAt(insts'[last'.i], path), insts'[last'.i].buff)
                      = getWith(AccessorAt(insts[last'.i], path), insts[last'.i].buff)]_vars

\* config.factor of an instance made from the full arguments was set to 9:
\* the other five bytes are those the constructor wrote.
C30_Witness ==
    /\ last.op = "set" /\ last.live /\ last.err = "none"
    /\ last.path = <<"config", "factor">>
    /\ insts[last.i].buff = <<24, 15, 65, 66, 4, 9>>

====
